---- MODULE Spec2Model ----
(***************************************************************************)
(* Graph Aware Sync Protocol (GASP): a model of the engine of              *)
(* src/package.json (class GASP, lines 170-341) run by an initiator "A"    *)
(* against a responder "B" that is another engine with its own Storage.    *)
(*                                                                         *)
(* Strings are sequences of one-character strings, so that the filter      *)
(* (calculateBloomFilter / checkFilterExclusion) and the 36-byte outpoint  *)
(* form are computed the way the code computes them.                       *)
(*                                                                         *)
(* Every Storage or Remote call is one suspension point: the call (and     *)
(* its effect on the Storage) happens in the step that issues it, the      *)
(* continuation after the await is a later step, and any other task may    *)
(* run in between.                                                         *)
(***************************************************************************)
EXTENDS Integers, Sequences, FiniteSets, TLC

(***************************************************************************)
(* Bounds of the model.                                                    *)
(***************************************************************************)
\* the largest number of inputs requested in one session
MaxRequests == 2

\* the largest timestamp of a known UTXO and the largest lastInteraction
MaxTime == 2

\* output indexes are taken around the powers of ten up to 10^MaxDigits
MaxDigits == 4

(***************************************************************************)
(* The universe of transactions and outputs.                               *)
(***************************************************************************)
Peers == {"A", "B"}

\* GASP.version is 1 after construction; the tests also run an initiator at 2
Versions == {1, 2}

\* raw transactions (the hex of GASPNode.tx)
RawTxs == {"rawa", "rawb"}

\* the outputs that exist: <<raw transaction, output index>>
UTXOUniverse == {<<"rawa", 1>>, <<"rawa", 10>>, <<"rawb", 0>>}

\* the outputs that are unspent: a peer may know them as tips; output 0 of rawb is
\* spent (an input of rawa), so it occurs as an ancestor only
Unspent == {<<"rawa", 1>>, <<"rawa", 10>>}

\* computeTXID: Transaction.fromHex(tx).id('hex'), an injective digest
computeTXID(tx) == IF tx = "rawa" THEN <<"a">> ELSE <<"b">>

\* the raw transaction a Storage holds for a txid (hydrateGASPNode's lookup)
RawOf(txid) == CHOOSE tx \in RawTxs : computeTXID(tx) = txid

\* an outpoint as findKnownUTXOs returns it: { txid, outputIndex }
Outpoint(txid, index) == [txid |-> txid, outputIndex |-> index]

Outpoints == {Outpoint(computeTXID(u[1]), u[2]) : u \in UTXOUniverse}

\* the identity of a node in the seen-set: `${node.tx}:${node.outputIndex}`
NodeId(tx, index) == <<tx, index>>

NodeIds == {NodeId(u[1], u[2]) : u \in UTXOUniverse}

\* a graph ID names the tip of a graph by its outpoint
GraphIDs == Outpoints

\* a GASPNode: { graphID, tx, outputIndex }
GASPNode(graphID, tx, index) == [graphID |-> graphID, tx |-> tx, outputIndex |-> index]

NodeIdOf(node) == NodeId(node.tx, node.outputIndex)

(***************************************************************************)
(* String helpers.                                                         *)
(***************************************************************************)
Digit(d) == <<"0", "1", "2", "3", "4", "5", "6", "7", "8", "9">>[d + 1]

\* Number.prototype.toString() of a non-negative integer
RECURSIVE toString(_)
toString(n) == IF n < 10 THEN <<Digit(n)>> ELSE toString(n \div 10) \o <<Digit(n % 10)>>

\* String.prototype.padStart(width, ch)
RECURSIVE padStart(_, _, _)
padStart(s, width, ch) == IF Len(s) >= width THEN s ELSE padStart(<<ch>> \o s, width, ch)

\* String.prototype.includes
includes(hay, needle) ==
  \E i \in 0..(Len(hay) - Len(needle)) : SubSeq(hay, i + 1, i + Len(needle)) = needle

\* the position of the first ch in s at or after from, or Len(s) + 1
RECURSIVE IndexFrom(_, _, _)
IndexFrom(s, ch, from) ==
  IF from > Len(s) THEN Len(s) + 1
  ELSE IF s[from] = ch THEN from ELSE IndexFrom(s, ch, from + 1)

DigitValue(c) == CHOOSE d \in 0..9 : Digit(d) = c

IsDigit(c) == \E d \in 0..9 : Digit(d) = c

\* parseInt(s, 10) of an unsigned string: the leading digits, -1 for NaN
RECURSIVE ParseDigits(_, _, _)
ParseDigits(s, i, acc) ==
  IF i > Len(s) \/ ~IsDigit(s[i]) THEN acc
  ELSE ParseDigits(s, i + 1, 10 * acc + DigitValue(s[i]))

parseInt(s) == IF s = <<>> \/ ~IsDigit(s[1]) THEN -1 ELSE ParseDigits(s, 1, 0)

\* a set as an array, in some fixed order
RECURSIVE SetToSeq(_)
SetToSeq(S) == IF S = {} THEN <<>> ELSE LET x == CHOOSE y \in S : TRUE IN <<x>> \o SetToSeq(S \ {x})

\* Array.prototype.join(sep) of an array of strings
RECURSIVE join(_, _)
join(strs, sep) ==
  IF strs = <<>> THEN <<>>
  ELSE IF Len(strs) = 1 THEN strs[1] ELSE strs[1] \o sep \o join(Tail(strs), sep)

(***************************************************************************)
(* The private helpers of class GASP.                                      *)
(***************************************************************************)
\* `${tx.txid}:${tx.outputIndex}`
FilterEntry(txid, index) == txid \o <<":">> \o toString(index)

calculateBloomFilter(txs) ==
  LET arr == SetToSeq(txs)
  IN join([i \in 1..Len(arr) |-> FilterEntry(arr[i].txid, arr[i].outputIndex)], <<",">>)

\* a 36-byte form that keeps the last four digits of the index
compute36ByteStructureFixedWidth(txid, index) ==
  LET d == padStart(toString(index), 4, "0")
  IN txid \o <<":">> \o SubSeq(d, Len(d) - 3, Len(d))

compute36ByteStructure(txid, index) == txid \o <<":">> \o padStart(toString(index), 4, "0")

\* a check that looks the outpoint up in its 36-byte form, which no filter entry has
checkFilterExclusionPadded(filter, txid, outputIndex) ==
  ~includes(filter, compute36ByteStructure(txid, outputIndex))

checkFilterExclusion(filter, txid, outputIndex) == ~includes(filter, FilterEntry(txid, outputIndex))

deconstruct36ByteStructure(outpoint) ==
  LET c1 == IndexFrom(outpoint, ":", 1)
      c2 == IndexFrom(outpoint, ":", c1 + 1)
  IN [txid |-> SubSeq(outpoint, 1, c1 - 1),
      index |-> parseInt(SubSeq(outpoint, c1 + 1, c2 - 1))]

(***************************************************************************)
(* State.                                                                  *)
(***************************************************************************)
VARIABLES
  version,     \* GASP.version of each engine
  storage,     \* each peer's Storage: knownStore and tempGraphStore
  lastCall,    \* per peer and graph ID, the last graph call its Storage received
  calls,       \* per peer, the names of the Storage methods called so far
  remoteCalls, \* the names of the GASPRemote methods the initiator called so far
  syncPc,      \* where A.sync() stands
  syncErr,     \* the error A.sync() rejected with
  request,     \* the GASPInitialRequest A built
  pulled,      \* the nodes of the initial response (one top-level graph each)
  frames,      \* per top-level graph and node identity: its processIncomingNode invocation
  reqs,        \* the remote.requestNode calls awaiting their result
  seen,        \* per top-level graph: seenNodes of its processIncomingNode recursion
  failed,      \* per top-level graph: a call of its recursion has failed
  validated,   \* per top-level graph: how validateGraphAnchor settled ("no": not yet)
  finalized,   \* the graph IDs A's engine has called finalizeGraph for
  discarded,   \* the graph IDs A's engine has called discardGraph for
  requestedNodes, \* per top-level graph: the outpoints remote.requestNode was called for
  pushed,      \* the graph IDs of the nodes sync() handed to processOutgoingNode
  outTasks,    \* the remote.submitNode calls awaiting their result
  outReqs,     \* the storage.hydrateGASPNode calls of processOutgoingNode awaiting their result
  outSeen,     \* per outgoing top-level graph: seenNodes of processOutgoingNode
  outFailed,   \* per outgoing top-level graph: a call of its recursion has failed
  known0,      \* each peer's known UTXOs when sync() started
  requests,    \* the number of inputs requested so far
  allOk,       \* no Storage or Remote call of the session has failed so far
  unidirectional,  \* GASP.unidirectional of the initiator
  lastInteraction, \* GASP.lastInteraction of each engine
  graphTime,       \* per peer and tip: Graph.time of the tip in its knownStore
  sincePc,         \* where a sync() that lists by `since` stands
  initialRequest,  \* its GASPInitialRequest { version, since }
  initialResponse, \* the GASPInitialResponse { UTXOList, since } it received
  initialReply,    \* the GASPInitialReply { UTXOList } computed for it
  toPull,          \* the listed tips whose pull has not run yet
  toPush,          \* the tips of the reply whose push has not run yet
  sinceCalls,      \* the Remote and Storage calls it made: <<receiver, method, outpoint>>
  noneAnswers,     \* the calls that answered undefined: <<method, top-level graph>>
  codec,           \* an outpoint, its 36-byte form and what is read back from it
  mock,            \* a MockStorage that serves single calls
  answer           \* the last call served by mock, with its result

PullVars == <<pulled, frames, reqs, seen, failed, validated, finalized, discarded,
              requestedNodes>>
PushVars == <<pushed, outTasks, outReqs, outSeen, outFailed>>

SinceVars == <<unidirectional, lastInteraction, graphTime, sincePc, initialRequest,
               initialResponse, initialReply, toPull, toPush, sinceCalls>>
SyncVars == <<version, storage, lastCall, calls, remoteCalls, syncPc, syncErr, request,
              PullVars, PushVars, known0, requests, allOk>>

UnitVars == <<codec, mock, answer>>

vars == <<SyncVars, SinceVars, noneAnswers, UnitVars>>

NoError == [code |-> "none"]

VersionMismatchError(currentVersion, foreignVersion) ==
  [code |-> "ERR_GASP_VERSION_MISMATCH", currentVersion |-> currentVersion,
   foreignVersion |-> foreignVersion]

\* any other rejection of sync(): the error of the call that failed, and the
\* stage of sync() the call belongs to
CallError(stage) == [code |-> "ERR_CALL_FAILED", stage |-> stage]

\* the spentBy of the top-level invocation
Undefined == <<>>

NoFrame(g) == [pc |-> "none", gid |-> g, spentBy |-> Undefined]

EmptyStorage == [knownStore |-> {}, tempGraphStore |-> [g \in GraphIDs |-> {}]]

InitialKnown == SUBSET {Outpoint(computeTXID(u[1]), u[2]) : u \in Unspent}

\* the tips a peer may know
Tips == {Outpoint(computeTXID(u[1]), u[2]) : u \in Unspent}

\* the argument of a call that names no outpoint
NoOutpoint == Outpoint(<<>>, 0)

\* the state of the variables of the `since` session while no such session runs
SinceOff ==
  /\ unidirectional = FALSE
  /\ lastInteraction = [p \in Peers |-> 0]
  /\ graphTime = [p \in Peers |-> <<>>]
  /\ sincePc = "off"
  /\ initialRequest = [version |-> 0, since |-> 0]
  /\ initialResponse = [UTXOList |-> {}, since |-> 0]
  /\ initialReply = [UTXOList |-> {}]
  /\ toPull = {}
  /\ toPush = {}
  /\ sinceCalls = {}

\* the state before sync() is called, each peer knowing a set of K
SessionInit(K) ==
  /\ version \in {v \in [Peers -> Versions] : v["B"] = 1}
  /\ known0 \in [Peers -> K]
  /\ storage = [p \in Peers |-> [EmptyStorage EXCEPT !.knownStore = known0[p]]]
  /\ lastCall = [p \in Peers |-> [g \in GraphIDs |-> "none"]]
  /\ calls = [p \in Peers |-> {}]
  /\ remoteCalls = {}
  /\ syncPc = "idle"
  /\ syncErr = NoError
  /\ request = [version |-> 0, UTXOBloom |-> <<>>]
  /\ pulled = {}
  /\ frames = [g \in GraphIDs |-> [n \in NodeIds |-> NoFrame(g)]]
  /\ reqs = {}
  /\ seen = [g \in GraphIDs |-> {}]
  /\ failed = [g \in GraphIDs |-> FALSE]
  /\ validated = [g \in GraphIDs |-> "no"]
  /\ finalized = {}
  /\ discarded = {}
  /\ requestedNodes = [g \in GraphIDs |-> {}]
  /\ pushed = {}
  /\ outTasks = {}
  /\ outReqs = {}
  /\ outSeen = [g \in GraphIDs |-> {}]
  /\ outFailed = [g \in GraphIDs |-> FALSE]
  /\ requests = 0
  /\ allOk = TRUE

SyncInit == SessionInit(InitialKnown)

\* the state of the variables of the single calls while none is served
NoCodec == [stage |-> "off", txid |-> <<>>, index |-> 0, encoded |-> <<>>,
            decoded |-> [txid |-> <<>>, index |-> 0]]

NoAnswer == [call |-> "none", graphID |-> <<>>, ok |-> TRUE, node |-> <<>>, tick |-> FALSE]

UnitOff == codec = NoCodec /\ mock = EmptyStorage /\ answer = NoAnswer

Init == SyncInit /\ SinceOff /\ noneAnswers = {} /\ UnitOff

(***************************************************************************)
(* Storage: the effect of the graph calls (interface GASPStorage; the      *)
(* bodies follow MockStorage of the tests).                                *)
(***************************************************************************)
appendToGraph(st, node) == [st EXCEPT !.tempGraphStore[node.graphID] = @ \cup {NodeIdOf(node)}]

\* a discard that also forgets the known UTXO of that name
discardGraphKnown(st, graphID) ==
  [st EXCEPT !.knownStore = @ \ {graphID}, !.tempGraphStore[graphID] = {}]

\* a discard that deletes every temporary graph
discardGraphAll(st, graphID) == [st EXCEPT !.tempGraphStore = [g \in GraphIDs |-> {}]]

discardGraph(st, graphID) == [st EXCEPT !.tempGraphStore[graphID] = {}]

finalizeGraph(st, graphID) ==
  IF st.tempGraphStore[graphID] # {}
  THEN [st EXCEPT !.knownStore = @ \cup {graphID}, !.tempGraphStore[graphID] = {}]
  ELSE st

\* hydrateGASPNode of a known UTXO: the tip of its own graph
TipNode(o) == GASPNode(o, RawOf(o.txid), o.outputIndex)

\* the graph ID a Storage may put on a node hydrated for a request made while
\* graph g is processed: g itself, or the node's own outpoint (README)
GraphIDChoices(g, o) == {g, o}

\* the keys a findNeededInputs / submitNode answer is drawn from
NeededKeys == {compute36ByteStructure(o.txid, o.outputIndex) : o \in Outpoints}

\* a session that pulls one graph into an empty Storage: its requests are not bounded
SingleGraph == known0["A"] = {} /\ Cardinality(known0["B"]) = 1

NeededChoices ==
  {R \in SUBSET NeededKeys : SingleGraph \/ requests + Cardinality(R) <= MaxRequests}

\* the number of inputs requested once R has been requested
Requested(R) == IF SingleGraph THEN requests ELSE requests + Cardinality(R)

(***************************************************************************)
(* The handshake.                                                          *)
(***************************************************************************)
getSyncUTXOsForFilterAll(p, filter) ==
  {TipNode(k) : k \in storage[p].knownStore}

getSyncUTXOsForFilter(p, filter) ==
  {TipNode(k) : k \in {o \in storage[p].knownStore :
                         checkFilterExclusion(filter, o.txid, o.outputIndex)}}

\* a response whose error names the two versions the other way round
buildInitialResponseSwapped(p, req) ==
  IF req.version # version[p]
  THEN [err |-> VersionMismatchError(req.version, version[p]), nodes |-> {}, storageCalls |-> {}]
  ELSE LET nodes == getSyncUTXOsForFilter(p, req.UTXOBloom)
       IN [err |-> NoError, nodes |-> nodes,
           storageCalls |-> {"findKnownUTXOs"} \cup
                            (IF nodes # {} THEN {"hydrateGASPNode"} ELSE {})]

\* a response that lists the known UTXOs before it compares the versions
buildInitialResponseLateCheck(p, req) ==
  LET nodes == getSyncUTXOsForFilter(p, req.UTXOBloom)
      called == {"findKnownUTXOs"} \cup (IF nodes # {} THEN {"hydrateGASPNode"} ELSE {})
  IN IF req.version # version[p]
     THEN [err |-> VersionMismatchError(version[p], req.version), nodes |-> {},
           storageCalls |-> called]
     ELSE [err |-> NoError, nodes |-> nodes, storageCalls |-> called]

\* the outcome of buildInitialResponse on engine p, and the Storage methods it calls
buildInitialResponse(p, req) ==
  IF req.version # version[p]
  THEN [err |-> VersionMismatchError(version[p], req.version), nodes |-> {}, storageCalls |-> {}]
  ELSE LET nodes == getSyncUTXOsForFilter(p, req.UTXOBloom)
       IN [err |-> NoError, nodes |-> nodes,
           storageCalls |-> {"findKnownUTXOs"} \cup
                            (IF nodes # {} THEN {"hydrateGASPNode"} ELSE {})]

buildInitialRequest(p) ==
  [version |-> version[p], UTXOBloom |-> calculateBloomFilter(storage[p].knownStore)]

\* sync(), line 239: buildInitialRequest, then remote.getInitialResponse is called
SyncStart ==
  /\ syncPc = "idle"
  /\ calls' = [calls EXCEPT !["A"] = @ \cup {"findKnownUTXOs"}]
  /\ \/ /\ syncPc' = "rejected"
        /\ syncErr' = CallError("handshake")
        /\ allOk' = FALSE
        /\ UNCHANGED <<request, remoteCalls>>
     \/ /\ request' = buildInitialRequest("A")
        /\ remoteCalls' = remoteCalls \cup {"getInitialResponse"}
        /\ syncPc' = "wInitialResponse"
        /\ UNCHANGED <<syncErr, allOk>>
  /\ UNCHANGED <<SinceVars, noneAnswers, UnitVars>>
  /\ UNCHANGED <<version, storage, lastCall, known0, requests, PullVars, PushVars>>

\* the tips of the initial response enter processIncomingNode: each is added to its
\* own seenNodes and appendToGraph(node, undefined) is called; F: the appends that fail
EnterTips(nodes, F) ==
  /\ pulled' = nodes
  /\ seen' = [g \in GraphIDs |-> {NodeIdOf(n) : n \in {m \in nodes : m.graphID = g}}]
  /\ frames' = [g \in GraphIDs |-> [i \in NodeIds |->
                  IF \E n \in nodes : n.graphID = g /\ NodeIdOf(n) = i
                  THEN [pc |-> IF TipNode(g) \in F THEN "wAppendFail" ELSE "wAppendOk",
                        gid |-> g, spentBy |-> Undefined]
                  ELSE NoFrame(g)]]
  /\ storage' = [storage EXCEPT !["A"].tempGraphStore =
                   [g \in GraphIDs |-> IF TipNode(g) \in nodes \ F
                                       THEN @[g] \cup {NodeIdOf(TipNode(g))} ELSE @[g]]]
  /\ lastCall' = [lastCall EXCEPT !["A"] =
                   [g \in GraphIDs |-> IF TipNode(g) \in nodes THEN "appendToGraph" ELSE @[g]]]
  /\ failed' = [g \in GraphIDs |-> TipNode(g) \in F]
  /\ allOk' = (allOk /\ F = {})

\* remote.getInitialResponse returns (B runs buildInitialResponse), and sync()
\* starts processIncomingNode for every node of the response (lines 240-243)
InitialResponse ==
  /\ syncPc = "wInitialResponse"
  /\ LET r == buildInitialResponse("B", request)
     IN IF r.err # NoError
        THEN /\ syncPc' = "rejected"
             /\ syncErr' = r.err
             /\ calls' = [calls EXCEPT !["B"] = @ \cup r.storageCalls]
             /\ allOk' = FALSE
             /\ UNCHANGED <<storage, lastCall, PullVars>>
        ELSE \/ /\ syncPc' = "rejected"
                /\ syncErr' = CallError("handshake")
                /\ calls' = [calls EXCEPT !["B"] = @ \cup {"findKnownUTXOs"}]
                /\ allOk' = FALSE
                /\ UNCHANGED <<storage, lastCall, PullVars>>
             \/ /\ \E F \in SUBSET r.nodes : EnterTips(r.nodes, F)
                /\ calls' = [calls EXCEPT
                               !["B"] = @ \cup r.storageCalls,
                               !["A"] = @ \cup (IF r.nodes # {} THEN {"appendToGraph"} ELSE {})]
                /\ syncPc' = "pull"
                /\ UNCHANGED <<syncErr, reqs, validated, finalized, discarded, requestedNodes>>
  /\ UNCHANGED <<SinceVars, noneAnswers, UnitVars>>
  /\ UNCHANGED <<version, remoteCalls, request, known0, requests, PushVars>>

(***************************************************************************)
(* processIncomingNode (lines 299-324), one invocation per frame.          *)
(***************************************************************************)
\* a test that takes every invocation for the one of the tip
IsTopAlways(g, n) == frames[g][n].spentBy \in {Undefined, frames[g][n].spentBy}

\* typeof spentBy === 'undefined'
IsTop(g, n) == frames[g][n].spentBy = Undefined

\* a rejection that ends the processing of every graph, not only of graph g
RejectEveryGraph(fr, g) ==
  [h \in GraphIDs |-> [n \in NodeIds |->
     IF fr[h][n].spentBy = Undefined /\ fr[h][n].pc = "wAll"
     THEN [fr[h][n] EXCEPT !.pc = "failed"] ELSE fr[h][n]]]

\* a promise of graph g's recursion rejects: Promise.all of every invocation above
\* it rejects (line 310), up to the top-level invocation
RejectTop(fr, g) ==
  [fr EXCEPT ![g] = [n \in NodeIds |->
     IF @[n].spentBy = Undefined /\ @[n].pc = "wAll" THEN [@[n] EXCEPT !.pc = "failed"] ELSE @[n]]]

\* every promise of graph g's recursion below the top-level invocation has settled
Settled(g) ==
  /\ \A r \in reqs : r.g # g
  /\ \A n \in NodeIds : IsTop(g, n) \/ frames[g][n].pc \in {"none", "done", "failed"}

\* a Promise.all that waits for the requestNode calls only, the recursive
\* processIncomingNode being started without await
RequestsResolved(g) == \A r \in reqs : r.g # g

\* await Promise.all(...) of the top-level invocation resolves (line 310): every
\* requestNode and every recursive processIncomingNode below it has resolved
AllResolved(g) == Settled(g)

\* a guard that finds no node in seenNodes
seenNodesHasNothing(g, nodeId) == nodeId \in {}

\* one seen-set shared by every graph of the session
seenNodesHasAnyGraph(g, nodeId) == \E h \in GraphIDs : nodeId \in seen[h]

\* seenNodes.has(nodeId) (line 301), for the seenNodes of graph g's recursion
seenNodesHas(g, nodeId) == nodeId \in seen[g]

\* a completion that calls discardGraph whatever validateGraphAnchor answered
AfterAnchorDiscarding(anchorOk) == "discardGraph"

\* a completion that calls finalizeGraph whatever validateGraphAnchor answered
AfterAnchorSwallowed(anchorOk) == "finalizeGraph"

\* the Storage call that follows validateGraphAnchor (lines 316-322): finalizeGraph
\* when it resolved, discardGraph (and rethrow) when it rejected
AfterAnchor(anchorOk) == IF anchorOk THEN "finalizeGraph" ELSE "discardGraph"

\* appendToGraph resolved (line 304): findNeededInputs is called and answers
\* (line 309), and remote.requestNode is called for every requested input (line 312)
AfterAppend(g, n) ==
  /\ frames[g][n].pc = "wAppendOk"
  /\ calls' = [calls EXCEPT !["A"] = @ \cup {"findNeededInputs"}]
  /\ \/ /\ frames' = RejectTop([frames EXCEPT ![g][n].pc = "failed"], g)
        /\ failed' = [failed EXCEPT ![g] = TRUE]
        /\ allOk' = FALSE
        /\ UNCHANGED <<reqs, remoteCalls, requests, requestedNodes>>
     \/ /\ \E R \in NeededChoices :
             /\ reqs' = reqs \cup {[g |-> g, par |-> n, key |-> k] : k \in R}
             /\ requestedNodes' = [requestedNodes EXCEPT ![g] = @ \cup R]
             /\ remoteCalls' = remoteCalls \cup (IF R # {} THEN {"requestNode"} ELSE {})
             /\ requests' = Requested(R)
        /\ frames' = [frames EXCEPT ![g][n].pc = IF IsTop(g, n) THEN "wAll" ELSE "done"]
        /\ UNCHANGED <<failed, allOk>>
  /\ UNCHANGED <<SinceVars, noneAnswers, UnitVars>>
  /\ UNCHANGED <<version, storage, lastCall, syncPc, syncErr, request, pulled, seen,
                 validated, finalized, discarded, known0, PushVars>>

\* a spentBy in the form of a filter entry, without the padding of the index
SpentByUnpadded(par) == FilterEntry(computeTXID(par[1]), par[2])

\* the spentBy of the recursive call made for an input of node par (line 313)
SpentBy(par) == compute36ByteStructure(computeTXID(par[1]), par[2])

\* an invocation that tests seenNodes but leaves the insertion out
EnterChildNoInsert(r, newNode, ok) ==
  LET id == NodeIdOf(newNode)
      spentBy == SpentBy(r.par)
  IN IF seenNodesHas(r.g, id)
     THEN UNCHANGED <<frames, seen, storage, lastCall, failed, allOk>>
     ELSE /\ UNCHANGED seen
          /\ frames' = [frames EXCEPT ![r.g][id] =
                          [pc |-> IF ok THEN "wAppendOk" ELSE "wAppendFail",
                           gid |-> newNode.graphID, spentBy |-> spentBy]]
          /\ storage' = IF ok THEN [storage EXCEPT !["A"] = appendToGraph(@, newNode)] ELSE storage
          /\ lastCall' = [lastCall EXCEPT !["A"][newNode.graphID] = "appendToGraph"]
          /\ failed' = IF ok THEN failed ELSE [failed EXCEPT ![r.g] = TRUE]
          /\ allOk' = (allOk /\ ok)

\* processIncomingNode(newNode, spentBy, seenNodes) up to its first await: the
\* seen-set guard (lines 300-302), then appendToGraph (line 304), which fails unless ok
EnterChild(r, newNode, ok) ==
  LET id == NodeIdOf(newNode)
      spentBy == SpentBy(r.par)
  IN IF seenNodesHas(r.g, id)
     THEN UNCHANGED <<frames, seen, storage, lastCall, failed, allOk>>
     ELSE /\ seen' = [seen EXCEPT ![r.g] = @ \cup {id}]
          /\ frames' = [frames EXCEPT ![r.g][id] =
                          [pc |-> IF ok THEN "wAppendOk" ELSE "wAppendFail",
                           gid |-> newNode.graphID, spentBy |-> spentBy]]
          /\ storage' = IF ok THEN [storage EXCEPT !["A"] = appendToGraph(@, newNode)] ELSE storage
          /\ lastCall' = [lastCall EXCEPT !["A"][newNode.graphID] = "appendToGraph"]
          /\ failed' = IF ok THEN failed ELSE [failed EXCEPT ![r.g] = TRUE]
          /\ allOk' = (allOk /\ ok)

\* remote.requestNode settled (line 312); on success the recursive call follows (line 313)
AfterRequest(r) ==
  /\ r \in reqs
  /\ reqs' = reqs \ {r}
  /\ \/ /\ failed' = [failed EXCEPT ![r.g] = TRUE]
        /\ frames' = RejectTop(frames, r.g)
        /\ allOk' = FALSE
        /\ calls' = [calls EXCEPT !["B"] = @ \cup {"hydrateGASPNode"}]
        /\ UNCHANGED <<seen, storage, lastCall>>
     \/ LET d == deconstruct36ByteStructure(r.key)
            o == Outpoint(d.txid, d.index)
        IN /\ o \in Outpoints
           /\ \E gid \in GraphIDChoices(r.g, o), ok \in BOOLEAN :
                /\ EnterChild(r, GASPNode(gid, RawOf(d.txid), d.index), ok)
                /\ calls' = [calls EXCEPT
                     !["B"] = @ \cup {"hydrateGASPNode"},
                     !["A"] = @ \cup (IF seenNodesHas(r.g, NodeId(RawOf(d.txid), d.index))
                                      THEN {} ELSE {"appendToGraph"})]
  /\ UNCHANGED <<SinceVars, noneAnswers, UnitVars>>
  /\ UNCHANGED <<version, remoteCalls, syncPc, syncErr, request, pulled, validated,
                 finalized, discarded, requestedNodes, known0, requests, PushVars>>

\* appendToGraph rejected: discardGraph(node.graphID) is called and e is rethrown
\* (lines 305-308); the discard itself fails unless ok
AfterAppendFail(g, n) ==
  /\ frames[g][n].pc = "wAppendFail"
  /\ \E ok \in BOOLEAN :
       storage' = IF ok THEN [storage EXCEPT !["A"] = discardGraph(@, frames[g][n].gid)]
                  ELSE storage
  /\ lastCall' = [lastCall EXCEPT !["A"][frames[g][n].gid] = "discardGraph"]
  /\ calls' = [calls EXCEPT !["A"] = @ \cup {"discardGraph"}]
  /\ discarded' = discarded \cup {frames[g][n].gid}
  /\ frames' = RejectTop([frames EXCEPT ![g][n].pc = "failed"], g)
  /\ UNCHANGED <<SinceVars, noneAnswers, UnitVars>>
  /\ UNCHANGED <<version, remoteCalls, syncPc, syncErr, request, pulled, reqs, seen,
                 failed, validated, finalized, requestedNodes, known0, requests, allOk, PushVars>>

\* Promise.all of the top-level invocation resolved: validateGraphAnchor(node.graphID)
\* is called (lines 315-317)
TopValidate(g, n) ==
  /\ frames[g][n].pc = "wAll"
  /\ AllResolved(g)
  /\ lastCall' = [lastCall EXCEPT !["A"][frames[g][n].gid] = "validateGraphAnchor"]
  /\ calls' = [calls EXCEPT !["A"] = @ \cup {"validateGraphAnchor"}]
  /\ frames' = [frames EXCEPT ![g][n].pc = "wValidate"]
  /\ UNCHANGED <<SinceVars, noneAnswers, UnitVars>>
  /\ UNCHANGED <<version, storage, remoteCalls, syncPc, syncErr, request, pulled, reqs,
                 seen, failed, validated, finalized, discarded, requestedNodes, known0, requests, allOk,
                 PushVars>>

\* validateGraphAnchor settled (anchorOk: it resolved): finalizeGraph, or discardGraph
\* and rethrow (lines 316-322); the call that follows fails in turn unless callOk
AfterValidate(g, n) ==
  /\ frames[g][n].pc = "wValidate"
  /\ \E anchorOk \in BOOLEAN, callOk \in BOOLEAN :
       LET gid == frames[g][n].gid
           call == AfterAnchor(anchorOk)
       IN /\ validated' = [validated EXCEPT ![g] = IF anchorOk THEN "ok" ELSE "failed"]
          /\ lastCall' = [lastCall EXCEPT !["A"][gid] = call]
          /\ calls' = [calls EXCEPT !["A"] = @ \cup {call}]
          /\ finalized' = IF call = "finalizeGraph" THEN finalized \cup {gid} ELSE finalized
          /\ discarded' = IF call = "discardGraph" THEN discarded \cup {gid} ELSE discarded
          /\ storage' = IF ~callOk THEN storage
                        ELSE IF call = "finalizeGraph"
                             THEN [storage EXCEPT !["A"] = finalizeGraph(@, gid)]
                             ELSE [storage EXCEPT !["A"] = discardGraph(@, gid)]
          /\ frames' = [frames EXCEPT ![g][n].pc =
                          IF anchorOk /\ callOk THEN "done" ELSE "failed"]
          /\ failed' = [failed EXCEPT ![g] = @ \/ ~anchorOk \/ ~callOk]
          /\ allOk' = (allOk /\ anchorOk /\ callOk)
  /\ UNCHANGED <<SinceVars, noneAnswers, UnitVars>>
  /\ UNCHANGED <<version, remoteCalls, syncPc, syncErr, request, pulled, reqs, seen,
                 requestedNodes, known0, requests, PushVars>>

(***************************************************************************)
(* sync() after the pull phase (lines 241-249) and processOutgoingNode     *)
(* (lines 330-340).                                                        *)
(***************************************************************************)
TopFrames == {t \in GraphIDs \X NodeIds : frames[t[1]][t[2]].pc # "none" /\ IsTop(t[1], t[2])}

\* Promise.all over the incoming nodes rejects with the first rejection (line 241)
PullRejected ==
  /\ syncPc = "pull"
  /\ \E t \in TopFrames : frames[t[1]][t[2]].pc = "failed"
  /\ syncPc' = "rejected"
  /\ syncErr' = CallError("pull")
  /\ UNCHANGED <<SinceVars, noneAnswers, UnitVars>>
  /\ UNCHANGED <<version, storage, lastCall, calls, remoteCalls, request, known0, requests,
                 allOk, PullVars, PushVars>>

\* a peer whose filter lists nothing
getFilterEmpty(p) == calculateBloomFilter({})

\* remote.getFilter() as the peer answers it: the filter of its known UTXOs (README)
getFilter(p) == calculateBloomFilter(storage[p].knownStore)

\* Promise.all over the incoming nodes resolved: getFilter, getSyncUTXOsForFilter and
\* processOutgoingNode for every node found, each up to remote.submitNode (lines 244-248)
StartPush ==
  /\ syncPc = "pull"
  /\ \A t \in TopFrames : frames[t[1]][t[2]].pc = "done"
  /\ \/ /\ syncPc' = "rejected"
        /\ syncErr' = CallError("filter")
        /\ calls' = [calls EXCEPT !["B"] = @ \cup {"findKnownUTXOs"}]
        /\ allOk' = FALSE
        /\ UNCHANGED PushVars
     \/ /\ LET nodes == getSyncUTXOsForFilter("A", getFilter("B"))
           IN /\ pushed' = {n.graphID : n \in nodes}
              /\ outSeen' = [g \in GraphIDs |-> {NodeIdOf(n) : n \in {m \in nodes : m.graphID = g}}]
              /\ outTasks' = {[g |-> n.graphID, node |-> n] : n \in nodes}
              /\ calls' = [calls EXCEPT
                             !["B"] = @ \cup {"findKnownUTXOs"},
                             !["A"] = @ \cup {"findKnownUTXOs"} \cup
                                      (IF nodes # {} THEN {"hydrateGASPNode"} ELSE {})]
        /\ syncPc' = "push"
        /\ UNCHANGED <<syncErr, outReqs, outFailed, allOk>>
  /\ remoteCalls' = remoteCalls \cup {"getFilter"} \cup
                    (IF outTasks' # {} THEN {"submitNode"} ELSE {})
  /\ UNCHANGED <<SinceVars, noneAnswers, UnitVars>>
  /\ UNCHANGED <<version, storage, lastCall, request, known0, requests, PullVars>>

\* the peer's handling of a submitted node: append it, ask which inputs are needed,
\* and complete the graph (validate, then finalize or discard) when none is
submitNode(t, outcome, R) ==
  LET gid == t.node.graphID
      appended == appendToGraph(storage["B"], t.node)
  IN CASE outcome = "appendFails" ->
            [st |-> discardGraph(storage["B"], gid), last |-> "discardGraph", ok |-> FALSE,
             needs |-> {}, called |-> {"appendToGraph", "discardGraph"}]
       [] outcome = "findNeededInputsFails" ->
            [st |-> appended, last |-> "appendToGraph", ok |-> FALSE, needs |-> {},
             called |-> {"appendToGraph", "findNeededInputs"}]
       [] outcome = "needs" ->
            [st |-> appended, last |-> "appendToGraph", ok |-> TRUE, needs |-> R,
             called |-> {"appendToGraph", "findNeededInputs"}]
       [] outcome = "finalized" ->
            [st |-> finalizeGraph(appended, gid), last |-> "finalizeGraph", ok |-> TRUE, needs |-> {},
             called |-> {"appendToGraph", "findNeededInputs", "validateGraphAnchor",
                         "finalizeGraph"}]
       [] OTHER ->
            [st |-> discardGraph(appended, gid), last |-> "discardGraph", ok |-> TRUE, needs |-> {},
             called |-> {"appendToGraph", "findNeededInputs", "validateGraphAnchor",
                         "discardGraph"}]

SubmitOutcomes == {"appendFails", "findNeededInputsFails", "needs", "finalized", "anchorFails"}

\* remote.submitNode settled (line 334): storage.hydrateGASPNode is called for every
\* requested input (line 337)
AfterSubmit(t) ==
  /\ t \in outTasks
  /\ outTasks' = outTasks \ {t}
  /\ \E outcome \in SubmitOutcomes, R \in NeededChoices :
       /\ (outcome = "needs") = (R # {})
       /\ LET res == submitNode(t, outcome, R)
          IN /\ storage' = [storage EXCEPT !["B"] = res.st]
             /\ lastCall' = [lastCall EXCEPT !["B"][t.node.graphID] = res.last]
             /\ calls' = [calls EXCEPT
                            !["B"] = @ \cup res.called,
                            !["A"] = @ \cup (IF res.needs # {} THEN {"hydrateGASPNode"} ELSE {})]
             /\ outFailed' = IF res.ok THEN outFailed ELSE [outFailed EXCEPT ![t.g] = TRUE]
             /\ outReqs' = outReqs \cup {[g |-> t.g, key |-> k] : k \in res.needs}
             /\ requests' = Requested(res.needs)
             /\ allOk' = (allOk /\ outcome \in {"needs", "finalized"})
  /\ UNCHANGED <<SinceVars, noneAnswers, UnitVars>>
  /\ UNCHANGED <<version, remoteCalls, syncPc, syncErr, request, known0, pushed, outSeen,
                 PullVars>>

\* an outgoing processing that appends the node it hydrated to its own Storage
AfterHydrateAppending(q) ==
  /\ q \in outReqs
  /\ outReqs' = outReqs \ {q}
  /\ \/ /\ outFailed' = [outFailed EXCEPT ![q.g] = TRUE]
        /\ allOk' = FALSE
        /\ UNCHANGED <<outTasks, outSeen, remoteCalls, storage>>
     \/ /\ LET d == deconstruct36ByteStructure(q.key)
               o == Outpoint(d.txid, d.index)
           IN /\ o \in Outpoints
              /\ \E gid \in GraphIDChoices(q.g, o) :
                   LET node == GASPNode(gid, RawOf(d.txid), d.index)
                   IN /\ storage' = [storage EXCEPT !["A"] = appendToGraph(@, node)]
                      /\ IF NodeIdOf(node) \in outSeen[q.g]
                         THEN UNCHANGED <<outTasks, outSeen, remoteCalls>>
                         ELSE /\ outSeen' = [outSeen EXCEPT ![q.g] = @ \cup {NodeIdOf(node)}]
                              /\ outTasks' = outTasks \cup {[g |-> q.g, node |-> node]}
                              /\ remoteCalls' = remoteCalls \cup {"submitNode"}
        /\ UNCHANGED <<outFailed, allOk>>
  /\ UNCHANGED <<SinceVars, noneAnswers, UnitVars>>
  /\ UNCHANGED <<version, lastCall, calls, syncPc, syncErr, request, known0,
                 requests, pushed, PullVars>>

\* storage.hydrateGASPNode settled (line 337); on success processOutgoingNode(
\* hydratedNode, seenNodes) runs up to remote.submitNode (lines 331-334)
AfterHydrate(q) ==
  /\ q \in outReqs
  /\ outReqs' = outReqs \ {q}
  /\ \/ /\ outFailed' = [outFailed EXCEPT ![q.g] = TRUE]
        /\ allOk' = FALSE
        /\ UNCHANGED <<outTasks, outSeen, remoteCalls>>
     \/ /\ LET d == deconstruct36ByteStructure(q.key)
               o == Outpoint(d.txid, d.index)
           IN /\ o \in Outpoints
              /\ \E gid \in GraphIDChoices(q.g, o) :
                   LET node == GASPNode(gid, RawOf(d.txid), d.index)
                   IN IF NodeIdOf(node) \in outSeen[q.g]
                      THEN UNCHANGED <<outTasks, outSeen, remoteCalls>>
                      ELSE /\ outSeen' = [outSeen EXCEPT ![q.g] = @ \cup {NodeIdOf(node)}]
                           /\ outTasks' = outTasks \cup {[g |-> q.g, node |-> node]}
                           /\ remoteCalls' = remoteCalls \cup {"submitNode"}
        /\ UNCHANGED <<outFailed, allOk>>
  /\ UNCHANGED <<SinceVars, noneAnswers, UnitVars>>
  /\ UNCHANGED <<version, storage, lastCall, calls, syncPc, syncErr, request, known0,
                 requests, pushed, PullVars>>

\* Promise.all over the outgoing nodes rejects with the first rejection (line 246)
PushRejected ==
  /\ syncPc = "push"
  /\ \E g \in pushed : outFailed[g]
  /\ syncPc' = "rejected"
  /\ syncErr' = CallError("push")
  /\ UNCHANGED <<SinceVars, noneAnswers, UnitVars>>
  /\ UNCHANGED <<version, storage, lastCall, calls, remoteCalls, request, known0, requests,
                 allOk, PullVars, PushVars>>

\* Promise.all over the outgoing nodes resolved: sync() resolves (line 249)
SyncResolve ==
  /\ syncPc = "push"
  /\ outTasks = {} /\ outReqs = {}
  /\ \A g \in pushed : ~outFailed[g]
  /\ syncPc' = "resolved"
  /\ UNCHANGED <<SinceVars, noneAnswers, UnitVars>>
  /\ UNCHANGED <<version, storage, lastCall, calls, remoteCalls, syncErr, request, known0,
                 requests, allOk, PullVars, PushVars>>

Next ==
  \/ SyncStart
  \/ InitialResponse
  \/ \E g \in GraphIDs, n \in NodeIds : AfterAppend(g, n)
  \/ \E r \in reqs : AfterRequest(r)
  \/ \E g \in GraphIDs, n \in NodeIds : AfterAppendFail(g, n)
  \/ \E g \in GraphIDs, n \in NodeIds : TopValidate(g, n)
  \/ \E g \in GraphIDs, n \in NodeIds : AfterValidate(g, n)
  \/ PullRejected
  \/ StartPush
  \/ \E t \in outTasks : AfterSubmit(t)
  \/ \E q \in outReqs : AfterHydrate(q)
  \/ PushRejected
  \/ SyncResolve

Spec == Init /\ [][Next]_vars

\* sessions in which B knows the single tip a:1; every pending call eventually
\* returns and its continuation runs
\* tips of two transactions: neither outpoint string contains the other, so each
\* peer lists to the other what the other lacks
ExchangeTips == {Outpoint(<<"a">>, 1), Outpoint(<<"b">>, 0)}

\* sessions between two engines of version 1 that know tips of ExchangeTips
ExchangeInit ==
  /\ SessionInit(SUBSET ExchangeTips)
  /\ version["A"] = 1
  /\ SinceOff /\ noneAnswers = {} /\ UnitOff

ExchangeSpec == ExchangeInit /\ [][Next]_vars

CycleInit == Init /\ known0["B"] = {Outpoint(<<"a">>, 1)}

CycleSpec == CycleInit /\ [][Next]_vars /\ WF_vars(Next)

(***************************************************************************)
(* processIncomingNode and processOutgoingNode of src/index.ts: no         *)
(* seenNodes, and the recursive processIncomingNode is started without     *)
(* await (lines 207-213), so that its outcome reaches no caller.  The      *)
(* inputs asked for are those of an acyclic graph: no outpoint is asked    *)
(* for twice within one graph and the tip is never asked for.              *)
(***************************************************************************)
IndexNeededChoices(g) ==
  {R \in NeededChoices :
     R \cap (requestedNodes[g] \cup {compute36ByteStructure(g.txid, g.outputIndex)}) = {}}

\* appendToGraph resolved (index.ts line 198): findNeededInputs (line 203) and
\* remote.requestNode for every requested input (line 206); an invocation below the
\* tip was not awaited, its rejection reaches no one
IndexAfterAppend(g, n) ==
  /\ frames[g][n].pc = "wAppendOk"
  /\ calls' = [calls EXCEPT !["A"] = @ \cup {"findNeededInputs"}]
  /\ \/ /\ frames' = [frames EXCEPT ![g][n].pc = "failed"]
        /\ failed' = [failed EXCEPT ![g] = TRUE]
        /\ allOk' = FALSE
        /\ UNCHANGED <<reqs, remoteCalls, requests, requestedNodes>>
     \/ /\ \E R \in IndexNeededChoices(g) :
             /\ reqs' = reqs \cup {[g |-> g, par |-> n, key |-> k] : k \in R}
             /\ requestedNodes' = [requestedNodes EXCEPT ![g] = @ \cup R]
             /\ remoteCalls' = remoteCalls \cup (IF R # {} THEN {"requestNode"} ELSE {})
             /\ requests' = Requested(R)
        /\ frames' = [frames EXCEPT ![g][n].pc = IF IsTop(g, n) THEN "wAll" ELSE "done"]
        /\ UNCHANGED <<failed, allOk>>
  /\ UNCHANGED <<SinceVars, noneAnswers, UnitVars>>
  /\ UNCHANGED <<version, storage, lastCall, syncPc, syncErr, request, pulled, seen,
                 validated, finalized, discarded, known0, PushVars>>

\* remote.requestNode settled (index.ts line 206): a rejection rejects the
\* Promise.all of the invocation that asked, which is awaited only when that is the
\* tip's; on success processIncomingNode(newNode, spentBy) runs up to appendToGraph
\* (lines 207-213, 198)
IndexAfterRequest(r) ==
  /\ r \in reqs
  /\ reqs' = reqs \ {r}
  /\ \/ /\ failed' = [failed EXCEPT ![r.g] = TRUE]
        /\ frames' = IF IsTop(r.g, r.par) THEN RejectTop(frames, r.g) ELSE frames
        /\ allOk' = FALSE
        /\ calls' = [calls EXCEPT !["B"] = @ \cup {"hydrateGASPNode"}]
        /\ UNCHANGED <<storage, lastCall>>
     \/ LET d == deconstruct36ByteStructure(r.key)
            o == Outpoint(d.txid, d.index)
        IN /\ o \in Outpoints
           /\ \E gid \in GraphIDChoices(r.g, o), ok \in BOOLEAN :
                LET newNode == GASPNode(gid, RawOf(d.txid), d.index)
                IN /\ frames' = [frames EXCEPT ![r.g][NodeIdOf(newNode)] =
                                   [pc |-> IF ok THEN "wAppendOk" ELSE "wAppendFail",
                                    gid |-> gid, spentBy |-> SpentBy(r.par)]]
                   /\ storage' = IF ok THEN [storage EXCEPT !["A"] = appendToGraph(@, newNode)]
                                 ELSE storage
                   /\ lastCall' = [lastCall EXCEPT !["A"][gid] = "appendToGraph"]
                   /\ failed' = IF ok THEN failed ELSE [failed EXCEPT ![r.g] = TRUE]
                   /\ allOk' = (allOk /\ ok)
           /\ calls' = [calls EXCEPT !["B"] = @ \cup {"hydrateGASPNode"},
                                     !["A"] = @ \cup {"appendToGraph"}]
  /\ UNCHANGED <<SinceVars, noneAnswers, UnitVars>>
  /\ UNCHANGED <<version, remoteCalls, syncPc, syncErr, request, pulled, seen, validated,
                 finalized, discarded, requestedNodes, known0, requests, PushVars>>

\* appendToGraph rejected: discardGraph(node.graphID) and rethrow (index.ts lines
\* 199-202); the rejection of an invocation below the tip reaches no one
IndexAfterAppendFail(g, n) ==
  /\ frames[g][n].pc = "wAppendFail"
  /\ \E ok \in BOOLEAN :
       storage' = IF ok THEN [storage EXCEPT !["A"] = discardGraph(@, frames[g][n].gid)]
                  ELSE storage
  /\ lastCall' = [lastCall EXCEPT !["A"][frames[g][n].gid] = "discardGraph"]
  /\ calls' = [calls EXCEPT !["A"] = @ \cup {"discardGraph"}]
  /\ discarded' = discarded \cup {frames[g][n].gid}
  /\ frames' = [frames EXCEPT ![g][n].pc = "failed"]
  /\ UNCHANGED <<SinceVars, noneAnswers, UnitVars>>
  /\ UNCHANGED <<version, remoteCalls, syncPc, syncErr, request, pulled, reqs, seen,
                 failed, validated, finalized, requestedNodes, known0, requests, allOk, PushVars>>

\* Promise.all of the tip's invocation resolved (index.ts line 204): every
\* requestNode the tip asked for has returned and the recursive call for it has been
\* started; validateGraphAnchor(node.graphID) is called (lines 215-217)
IndexTopValidate(g, n) ==
  /\ frames[g][n].pc = "wAll"
  /\ \A r \in reqs : r.g = g => r.par # n
  /\ lastCall' = [lastCall EXCEPT !["A"][frames[g][n].gid] = "validateGraphAnchor"]
  /\ calls' = [calls EXCEPT !["A"] = @ \cup {"validateGraphAnchor"}]
  /\ frames' = [frames EXCEPT ![g][n].pc = "wValidate"]
  /\ UNCHANGED <<SinceVars, noneAnswers, UnitVars>>
  /\ UNCHANGED <<version, storage, remoteCalls, syncPc, syncErr, request, pulled, reqs,
                 seen, failed, validated, finalized, discarded, requestedNodes, known0, requests, allOk,
                 PushVars>>

\* storage.hydrateGASPNode settled (index.ts line 230); on success
\* processOutgoingNode(hydratedNode) runs up to remote.submitNode (lines 231, 227)
IndexAfterHydrate(q) ==
  /\ q \in outReqs
  /\ outReqs' = outReqs \ {q}
  /\ \/ /\ outFailed' = [outFailed EXCEPT ![q.g] = TRUE]
        /\ allOk' = FALSE
        /\ UNCHANGED <<outTasks, remoteCalls>>
     \/ /\ LET d == deconstruct36ByteStructure(q.key)
               o == Outpoint(d.txid, d.index)
           IN /\ o \in Outpoints
              /\ \E gid \in GraphIDChoices(q.g, o) :
                   outTasks' = outTasks \cup
                                 {[g |-> q.g, node |-> GASPNode(gid, RawOf(d.txid), d.index)]}
              /\ remoteCalls' = remoteCalls \cup {"submitNode"}
        /\ UNCHANGED <<outFailed, allOk>>
  /\ UNCHANGED <<SinceVars, noneAnswers, UnitVars>>
  /\ UNCHANGED <<version, storage, lastCall, calls, syncPc, syncErr, request, known0,
                 requests, pushed, outSeen, PullVars>>

IndexNext ==
  \/ SyncStart
  \/ InitialResponse
  \/ \E g \in GraphIDs, n \in NodeIds : IndexAfterAppend(g, n)
  \/ \E r \in reqs : IndexAfterRequest(r)
  \/ \E g \in GraphIDs, n \in NodeIds : IndexAfterAppendFail(g, n)
  \/ \E g \in GraphIDs, n \in NodeIds : IndexTopValidate(g, n)
  \/ \E g \in GraphIDs, n \in NodeIds : AfterValidate(g, n)
  \/ PullRejected
  \/ StartPush
  \/ \E t \in outTasks : AfterSubmit(t)
  \/ \E q \in outReqs : IndexAfterHydrate(q)
  \/ PushRejected
  \/ SyncResolve

IndexSpec == Init /\ [][IndexNext]_vars

(***************************************************************************)
(* A Storage or a Remote that answers undefined where a GASPNodeResponse   *)
(* is expected (MockStorage.findNeededInputs does; a peer that needs       *)
(* nothing further may).  The engine reads .requestedInputs of the answer  *)
(* (lines 310 and 335), which throws a TypeError on undefined.             *)
(***************************************************************************)
\* findNeededInputs answered undefined: Object.entries(neededInputs.requestedInputs)
\* throws (line 310) and processIncomingNode rejects
AfterAppendNone(g, n) ==
  /\ frames[g][n].pc = "wAppendOk"
  /\ calls' = [calls EXCEPT !["A"] = @ \cup {"findNeededInputs"}]
  /\ noneAnswers' = noneAnswers \cup {<<"findNeededInputs", g>>}
  /\ frames' = RejectTop([frames EXCEPT ![g][n].pc = "failed"], g)
  /\ failed' = [failed EXCEPT ![g] = TRUE]
  /\ allOk' = FALSE
  /\ UNCHANGED <<SinceVars, UnitVars>>
  /\ UNCHANGED <<version, storage, lastCall, remoteCalls, syncPc, syncErr, request, pulled,
                 reqs, seen, validated, finalized, discarded, requestedNodes, known0,
                 requests, PushVars>>

\* remote.submitNode answered undefined after the peer completed the graph:
\* Object.entries(response.requestedInputs) throws (line 335) and
\* processOutgoingNode rejects
AfterSubmitNone(t) ==
  /\ t \in outTasks
  /\ outTasks' = outTasks \ {t}
  /\ noneAnswers' = noneAnswers \cup {<<"submitNode", t.g>>}
  /\ \E outcome \in {"finalized", "anchorFails"} :
       LET res == submitNode(t, outcome, {})
       IN /\ storage' = [storage EXCEPT !["B"] = res.st]
          /\ lastCall' = [lastCall EXCEPT !["B"][t.node.graphID] = res.last]
          /\ calls' = [calls EXCEPT !["B"] = @ \cup res.called]
  /\ outFailed' = [outFailed EXCEPT ![t.g] = TRUE]
  /\ allOk' = FALSE
  /\ UNCHANGED <<SinceVars, UnitVars>>
  /\ UNCHANGED <<version, remoteCalls, syncPc, syncErr, request, known0, requests, pushed,
                 outReqs, outSeen, PullVars>>

NoneNext ==
  \/ Next
  \/ \E g \in GraphIDs, n \in NodeIds : AfterAppendNone(g, n)
  \/ \E t \in outTasks : AfterSubmitNone(t)

\* sessions between peers that know at most one tip between them
NoneInit == Init /\ Cardinality(known0["A"] \cup known0["B"]) <= 1

NoneSpec == NoneInit /\ [][NoneNext]_vars

(***************************************************************************)
(* The session that lists by `since`: sync() of an engine constructed with *)
(* (storage, remote, lastInteraction, logPrefix, log, unidirectional).     *)
(* The lists are computed as the Storage and the Remote of the tests       *)
(* compute them; the order of the phases follows the control contract of   *)
(* sync(): initial request and response, pull of every listed tip that is  *)
(* not known locally, then (unless unidirectional) the reply and the push  *)
(* of its tips.  The pull and the push of one tip are one step each: the   *)
(* incoming or outgoing processing of the tip's graph with its outcome.    *)
(***************************************************************************)
\* the known UTXOs of a peer: the tips of its knownStore
Known(p) == DOMAIN graphTime[p]

findKnownUTXOsInclusive(p, since) ==
  {x \in Known(p) : graphTime[p][x] = 0 \/ graphTime[p][x] >= since}

\* knownStore.filter(x => !x.time || x.time > since); a graph without a
\* timestamp has time 0
findKnownUTXOs(p, since) ==
  {x \in Known(p) : graphTime[p][x] = 0 \/ graphTime[p][x] > since}

\* the version check, then { UTXOList: findKnownUTXOs(request.since), since }
getInitialResponse(p, req) ==
  IF req.version # version[p]
  THEN [ok |-> FALSE, err |-> VersionMismatchError(version[p], req.version)]
  ELSE [ok |-> TRUE,
        value |-> [UTXOList |-> findKnownUTXOs(p, req.since), since |-> lastInteraction[p]]]

getInitialReplyByTxid(p, response) ==
  [UTXOList |-> {x \in findKnownUTXOs(p, response.since) :
                   ~ \E y \in response.UTXOList : y.txid = x.txid}]

\* reply.filter(x => !response.UTXOList.some(y => y.txid === x.txid &&
\*                                             y.outputIndex === x.outputIndex))
getInitialReply(p, response) ==
  [UTXOList |-> {x \in findKnownUTXOs(p, response.since) :
                   ~ \E y \in response.UTXOList :
                       y.txid = x.txid /\ y.outputIndex = x.outputIndex}]

\* finalizeGraph: knownStore.push(tempGraph); a tip the store holds already keeps
\* the entry that find() returns
Finalized(p, o, t) ==
  IF o \in Known(p) THEN graphTime[p]
  ELSE [x \in Known(p) \cup {o} |-> IF x = o THEN t ELSE graphTime[p][x]]

\* steps 1 and 2 of sync(): the request carries lastInteraction, the response
\* is the peer's list
SinceStart ==
  /\ sincePc = "idle"
  /\ LET req == [version |-> version["A"], since |-> lastInteraction["A"]]
         res == getInitialResponse("B", req)
     IN /\ initialRequest' = req
        /\ IF res.ok
           THEN /\ initialResponse' = res.value
                /\ toPull' = {o \in res.value.UTXOList : o \notin findKnownUTXOs("A", 0)}
                /\ sincePc' = "pull"
                /\ sinceCalls' = sinceCalls \cup
                     {<<"remote", "getInitialResponse", NoOutpoint>>,
                      <<"B", "findKnownUTXOs", NoOutpoint>>,
                      <<"A", "findKnownUTXOs", NoOutpoint>>}
           ELSE /\ sincePc' = "rejected"
                /\ sinceCalls' = sinceCalls \cup
                     {<<"remote", "getInitialResponse", NoOutpoint>>}
                /\ UNCHANGED <<initialResponse, toPull>>
  /\ UNCHANGED <<unidirectional, lastInteraction, graphTime, initialReply, toPush>>
  /\ UNCHANGED <<SyncVars, noneAnswers, UnitVars>>

\* step 3 for one listed tip: remote.requestNode, then the incoming processing
\* of its graph, which ends in finalizeGraph or, on a failure, in discardGraph
PullTip(o, ok) ==
  /\ sincePc = "pull"
  /\ o \in toPull
  /\ toPull' = toPull \ {o}
  /\ sinceCalls' = sinceCalls \cup
       {<<"remote", "requestNode", o>>, <<"B", "hydrateGASPNode", o>>,
        <<"A", "appendToGraph", o>>} \cup
       (IF ok THEN {<<"A", "validateGraphAnchor", o>>, <<"A", "finalizeGraph", o>>}
              ELSE {<<"A", "discardGraph", o>>})
  /\ graphTime' = IF ok THEN [graphTime EXCEPT !["A"] = Finalized("A", o, graphTime["B"][o])]
                        ELSE graphTime
  /\ UNCHANGED <<unidirectional, lastInteraction, sincePc, initialRequest, initialResponse,
                 initialReply, toPush>>
  /\ UNCHANGED <<SyncVars, noneAnswers, UnitVars>>

StartReplyAlways ==
  /\ sincePc = "pull"
  /\ toPull = {}
  /\ LET reply == getInitialReply("A", initialResponse)
     IN /\ initialReply' = reply
        /\ toPush' = reply.UTXOList
        /\ sincePc' = "push"
        /\ sinceCalls' = sinceCalls \cup
             {<<"remote", "getInitialReply", NoOutpoint>>,
              <<"A", "findKnownUTXOs", NoOutpoint>>}
        /\ UNCHANGED lastInteraction
  /\ UNCHANGED <<unidirectional, graphTime, initialRequest, initialResponse, toPull>>
  /\ UNCHANGED <<SyncVars, noneAnswers, UnitVars>>

\* step 4, once every pull has settled: skipped if unidirectional (the session
\* is over and the peer's `since` becomes lastInteraction); otherwise the reply
\* lists the tips the initiator has that the responder did not list
StartReply ==
  /\ sincePc = "pull"
  /\ toPull = {}
  /\ IF unidirectional
     THEN /\ sincePc' = "resolved"
          /\ lastInteraction' = [lastInteraction EXCEPT !["A"] = initialResponse.since]
          /\ UNCHANGED <<initialReply, toPush, sinceCalls>>
     ELSE LET reply == getInitialReply("A", initialResponse)
          IN /\ initialReply' = reply
             /\ toPush' = reply.UTXOList
             /\ sincePc' = "push"
             /\ sinceCalls' = sinceCalls \cup
                  {<<"remote", "getInitialReply", NoOutpoint>>,
                   <<"A", "findKnownUTXOs", NoOutpoint>>}
             /\ UNCHANGED lastInteraction
  /\ UNCHANGED <<unidirectional, graphTime, initialRequest, initialResponse, toPull>>
  /\ UNCHANGED <<SyncVars, noneAnswers, UnitVars>>

\* step 4 for one tip of the reply: storage.hydrateGASPNode, remote.submitNode,
\* and the peer's incoming processing of the graph with its outcome
PushTip(o, ok) ==
  /\ sincePc = "push"
  /\ o \in toPush
  /\ toPush' = toPush \ {o}
  /\ sinceCalls' = sinceCalls \cup
       {<<"A", "hydrateGASPNode", o>>, <<"remote", "submitNode", o>>,
        <<"B", "appendToGraph", o>>} \cup
       (IF ok THEN {<<"B", "validateGraphAnchor", o>>, <<"B", "finalizeGraph", o>>}
              ELSE {<<"B", "discardGraph", o>>})
  /\ graphTime' = IF ok THEN [graphTime EXCEPT !["B"] = Finalized("B", o, graphTime["A"][o])]
                        ELSE graphTime
  /\ UNCHANGED <<unidirectional, lastInteraction, sincePc, initialRequest, initialResponse,
                 initialReply, toPull>>
  /\ UNCHANGED <<SyncVars, noneAnswers, UnitVars>>

\* sync() resolves once every push has settled
SinceResolve ==
  /\ sincePc = "push"
  /\ toPush = {}
  /\ sincePc' = "resolved"
  /\ lastInteraction' = [lastInteraction EXCEPT !["A"] = initialResponse.since]
  /\ UNCHANGED <<unidirectional, graphTime, initialRequest, initialResponse, initialReply,
                 toPull, toPush, sinceCalls>>
  /\ UNCHANGED <<SyncVars, noneAnswers, UnitVars>>

SinceNext ==
  \/ SinceStart
  \/ \E o \in Tips, ok \in BOOLEAN : PullTip(o, ok)
  \/ StartReply
  \/ \E o \in Tips, ok \in BOOLEAN : PushTip(o, ok)
  \/ SinceResolve

\* the knownStores a peer may start with: some tips, each with a time
\* (0: no timestamp)
KnownStores == UNION {[K -> 0 .. MaxTime] : K \in SUBSET Tips}

SinceInit ==
  /\ SyncInit
  /\ known0 = [p \in Peers |-> {}]
  /\ unidirectional \in BOOLEAN
  /\ lastInteraction \in [Peers -> 0 .. MaxTime]
  /\ graphTime \in [Peers -> KnownStores]
  /\ sincePc = "idle"
  /\ initialRequest = [version |-> 0, since |-> 0]
  /\ initialResponse = [UTXOList |-> {}, since |-> 0]
  /\ initialReply = [UTXOList |-> {}]
  /\ toPull = {}
  /\ toPush = {}
  /\ sinceCalls = {}
  /\ noneAnswers = {}
  /\ UnitOff

SinceSpec == SinceInit /\ [][SinceNext]_vars

(***************************************************************************)
(* The 36-byte form of an outpoint, written and read back.                 *)
(***************************************************************************)
\* transaction IDs without the delimiter ":", of up to two characters
TxidChars == {"a", "1"}

Txids == {<<>>} \cup {<<c>> : c \in TxidChars} \cup {<<c, d>> : c \in TxidChars, d \in TxidChars}

\* output indexes around the powers of ten
Indexes == UNION {{10 ^ k - 1, 10 ^ k, 10 ^ k + 1} : k \in 0 .. MaxDigits}

\* the off state of the session variables, for the single calls
Idle == SyncInit /\ version["A"] = 1 /\ known0 = [p \in Peers |-> {}] /\ SinceOff /\ noneAnswers = {}

CodecInit ==
  /\ Idle
  /\ mock = EmptyStorage /\ answer = NoAnswer
  /\ codec \in {[NoCodec EXCEPT !.stage = "input", !.txid = t, !.index = i] :
                  t \in Txids, i \in Indexes}

Encode ==
  /\ codec.stage = "input"
  /\ codec' = [codec EXCEPT !.stage = "encoded",
                            !.encoded = compute36ByteStructure(codec.txid, codec.index)]
  /\ UNCHANGED <<SyncVars, SinceVars, noneAnswers, mock, answer>>

Decode ==
  /\ codec.stage = "encoded"
  /\ codec' = [codec EXCEPT !.stage = "decoded",
                            !.decoded = deconstruct36ByteStructure(codec.encoded)]
  /\ UNCHANGED <<SyncVars, SinceVars, noneAnswers, mock, answer>>

\* the next outpoint is taken up
Reload ==
  /\ codec.stage = "decoded"
  /\ \E t \in Txids, i \in Indexes :
       codec' = [NoCodec EXCEPT !.stage = "input", !.txid = t, !.index = i]
  /\ UNCHANGED <<SyncVars, SinceVars, noneAnswers, mock, answer>>

CodecNext == Encode \/ Decode \/ Reload

CodecSpec == CodecInit /\ [][CodecNext]_vars

(***************************************************************************)
(* Single calls served by a Storage: MockStorage of the tests behind the   *)
(* requestNode of a Remote, and its graph calls.                           *)
(***************************************************************************)
\* the error of hydrateGASPNode for an outpoint that is not known
NotFound == <<"Not found">>

\* a lookup by txid alone
hydrateGASPNodeByTxid(st, graphID, txid, outputIndex) ==
  IF \E x \in st.knownStore : x.txid = txid
  THEN [ok |-> TRUE, node |-> GASPNode(graphID, RawOf(txid), outputIndex)]
  ELSE [ok |-> FALSE, node |-> NotFound]

\* knownStore.find(x => x.txid === txid && x.outputIndex === outputIndex); throws
\* 'Not found', else returns { graphID, rawTx, outputIndex }
hydrateGASPNode(st, graphID, txid, outputIndex) ==
  IF \E x \in st.knownStore : x.txid = txid /\ x.outputIndex = outputIndex
  THEN [ok |-> TRUE, node |-> GASPNode(graphID, RawOf(txid), outputIndex)]
  ELSE [ok |-> FALSE, node |-> NotFound]

\* requestNode as a Remote serves it: the answer of storage.hydrateGASPNode
requestNode(st, graphID, txid, outputIndex) == hydrateGASPNode(st, graphID, txid, outputIndex)

Answer(call, graphID, ok, node) ==
  [call |-> call, graphID |-> graphID, ok |-> ok, node |-> node, tick |-> ~ answer.tick]

StorageInit ==
  /\ Idle
  /\ codec = NoCodec
  /\ mock \in {[EmptyStorage EXCEPT !.knownStore = K] : K \in SUBSET Tips}
  /\ answer = NoAnswer

ServeRequestNode(g, o) ==
  /\ LET res == requestNode(mock, g, o.txid, o.outputIndex)
     IN answer' = Answer("requestNode", g, res.ok, <<o, res.node>>)
  /\ UNCHANGED <<SyncVars, SinceVars, noneAnswers, codec, mock>>

ServeAppendToGraph(node) ==
  /\ mock' = appendToGraph(mock, node)
  /\ answer' = Answer("appendToGraph", node.graphID, TRUE, <<>>)
  /\ UNCHANGED <<SyncVars, SinceVars, noneAnswers, codec>>

ServeFinalizeGraph(g) ==
  /\ mock' = finalizeGraph(mock, g)
  /\ answer' = Answer("finalizeGraph", g, TRUE, <<>>)
  /\ UNCHANGED <<SyncVars, SinceVars, noneAnswers, codec>>

\* delete this.tempGraphStore[graphID]: nothing in it can throw
ServeDiscardGraph(g) ==
  /\ mock' = discardGraph(mock, g)
  /\ answer' = Answer("discardGraph", g, TRUE, <<>>)
  /\ UNCHANGED <<SyncVars, SinceVars, noneAnswers, codec>>

StorageNext ==
  \/ \E g \in Tips, o \in Outpoints : ServeRequestNode(g, o)
  \/ \E g \in Tips, n \in NodeIds : ServeAppendToGraph(GASPNode(g, n[1], n[2]))
  \/ \E g \in Tips : ServeFinalizeGraph(g)
  \/ \E g \in Tips : ServeDiscardGraph(g)

StorageSpec == StorageInit /\ [][StorageNext]_vars

(***************************************************************************)
(* Properties.                                                             *)
(***************************************************************************)
\* sync() has settled and no task of the session is pending
Terminated ==
  /\ syncPc \in {"resolved", "rejected"}
  /\ reqs = {} /\ outTasks = {} /\ outReqs = {}
  /\ \A g \in GraphIDs, n \in NodeIds : frames[g][n].pc \in {"none", "done", "failed"}

GraphCalls == {"appendToGraph", "finalizeGraph", "discardGraph"}

\* C1 (commit atomicity): when the session is over, for every graph ID for which
\* appendToGraph was called on A's Storage, the last of the calls appendToGraph,
\* validateGraphAnchor, finalizeGraph, discardGraph made for it is finalizeGraph
\* or discardGraph
C1_CommitAtomicity ==
  Terminated =>
    \A g \in GraphIDs :
      lastCall["A"][g] # "none" => lastCall["A"][g] \in {"finalizeGraph", "discardGraph"}

\* C2 (no phantom finalize): a step that calls finalizeGraph(g) is the continuation of
\* a validateGraphAnchor(g) that returned successfully, and no appendToGraph,
\* findNeededInputs, requestNode or validateGraphAnchor call of graph g's processing
\* has failed before it
C2_NoPhantomFinalize ==
  [][\A g \in GraphIDs :
       (g \in finalized' /\ g \notin finalized) =>
         /\ frames[g][NodeIdOf(TipNode(g))].pc = "wValidate"
         /\ validated'[g] = "ok"
         /\ ~failed[g]]_vars

\* a graph with an ancestor has been validated and finalized, while another graph failed
C2_Witness ==
  \E g \in GraphIDs, h \in GraphIDs :
    g \in finalized /\ validated[g] = "ok" /\ Cardinality(seen[g]) >= 2 /\ failed[h]

\* C3 (sync resolves): sync() rejects only on a version mismatch or on the failure of
\* a call that sets up a phase (the handshake), never because appendToGraph,
\* findNeededInputs, requestNode or validateGraphAnchor failed for a graph
C3_SyncResolves ==
  syncPc = "rejected" =>
    \/ syncErr.code = "ERR_GASP_VERSION_MISMATCH"
    \/ syncErr.stage \in {"handshake", "filter"}

\* C4 (partial-failure isolation): when the session is over, every pulled graph h none
\* of whose own calls failed has been appended, validated and finalized, whatever
\* happened to the other graphs
C4_PartialFailureIsolation ==
  Terminated =>
    \A h \in GraphIDs :
      (TipNode(h) \in pulled /\ ~failed[h]) =>
        /\ NodeIdOf(TipNode(h)) \in seen[h]
        /\ validated[h] = "ok"
        /\ h \in finalized

\* two tips were pulled, one graph failed (sync() rejected) and the other was finalized
C4_Witness ==
  /\ Terminated
  /\ syncPc = "rejected"
  /\ \E g \in GraphIDs, h \in GraphIDs :
       /\ g # h /\ failed[g] /\ g \notin finalized
       /\ ~failed[h] /\ h \in finalized /\ h \in storage["A"].knownStore

\* C5 (anchor rejection): once validateGraphAnchor(g) has failed, discardGraph(g) has
\* been called, finalizeGraph(g) is never called, and g is known to A exactly if it
\* was when sync() started
C5_AnchorRejection ==
  \A g \in GraphIDs :
    validated[g] = "failed" =>
      /\ g \in discarded
      /\ g \notin finalized
      /\ (g \in storage["A"].knownStore) = (g \in known0["A"])

\* the anchor of a pulled graph was rejected and the session is over
C5_Witness == Terminated /\ \E g \in GraphIDs : validated[g] = "failed" /\ TipNode(g) \in pulled

\* C6 (convergence): when sync() resolves and no Storage or Remote call has failed,
\* A and B know the same UTXOs, the union of what they knew when sync() started
C6_Convergence ==
  (syncPc = "resolved" /\ allOk) =>
    /\ storage["A"].knownStore = known0["A"] \cup known0["B"]
    /\ storage["B"].knownStore = known0["A"] \cup known0["B"]

\* C7 (version fatality): for every engine and every initial request whose version
\* differs from the engine's, buildInitialResponse fails with a version-mismatch error
\* whose currentVersion is the engine's version and whose foreignVersion is the
\* request's, and calls no Storage method; so the error sync() receives names B's
\* version and the request's, and B's Storage has received no call
C7_VersionFatality ==
  /\ \A p \in Peers, v \in Versions :
       LET r == buildInitialResponse(p, [version |-> v, UTXOBloom |-> request.UTXOBloom])
       IN v # version[p] =>
            /\ r.err = VersionMismatchError(version[p], v)
            /\ r.storageCalls = {}
            /\ r.nodes = {}
  /\ syncErr.code = "ERR_GASP_VERSION_MISMATCH" =>
       /\ syncErr.currentVersion = version["B"]
       /\ syncErr.foreignVersion = request.version
       /\ calls["B"] = {}

\* B has answered A's initial request with a version-mismatch error
C7_Witness ==
  /\ syncErr.code = "ERR_GASP_VERSION_MISMATCH"
  /\ request.version # version["B"]
  /\ storage["B"].knownStore # {}

\* C8 (version mismatch at session level, as claimed): with A at version 2 and B at
\* version 1, a sync() that rejects at the handshake (A's own calls having succeeded)
\* rejects with VersionMismatch{current: 2, foreign: 1}; no requestNode, submitNode,
\* appendToGraph, finalizeGraph or discardGraph happens, and B's Storage gets no call
C8_AsClaimed ==
  (version["A"] = 2 /\ version["B"] = 1 /\ syncPc = "rejected"
     /\ syncErr.code # "ERR_CALL_FAILED") =>
    /\ syncErr = VersionMismatchError(2, 1)
    /\ remoteCalls \cap {"requestNode", "submitNode"} = {}
    /\ \A p \in Peers : calls[p] \cap GraphCalls = {}
    /\ calls["B"] = {}

\* C8 (amended): with A at version 2 and B at version 1, sync() never gets past the
\* handshake; unless A's own findKnownUTXOs failed it rejects with
\* VersionMismatch{current: 1, foreign: 2}; no requestNode, submitNode, appendToGraph,
\* finalizeGraph or discardGraph happens, and B's Storage gets no call
C8_VersionMismatchSession ==
  (version["A"] = 2 /\ version["B"] = 1) =>
    /\ syncPc \in {"idle", "wInitialResponse", "rejected"}
    /\ (syncPc = "rejected" /\ syncErr.code # "ERR_CALL_FAILED") =>
         syncErr = VersionMismatchError(1, 2)
    /\ (syncPc = "rejected" /\ syncErr.code = "ERR_CALL_FAILED") =>
         (syncErr.stage = "handshake" /\ remoteCalls = {})
    /\ remoteCalls \cap {"requestNode", "submitNode"} = {}
    /\ \A p \in Peers : calls[p] \cap GraphCalls = {}
    /\ calls["B"] = {}

\* A at version 2 has been rejected by B at version 1, both knowing different UTXOs
C8_Witness ==
  /\ version["A"] = 2 /\ version["B"] = 1
  /\ syncPc = "rejected"
  /\ syncErr = VersionMismatchError(1, 2)
  /\ known0["A"] # known0["B"]

\* C9 (idempotent no-op): if both peers know the same UTXOs when sync() starts, no
\* appendToGraph, finalizeGraph or discardGraph is called on either Storage, no node
\* is requested or submitted, and both known sets stay as they were
C9_IdempotentNoOp ==
  known0["A"] = known0["B"] =>
    /\ \A p \in Peers : calls[p] \cap GraphCalls = {}
    /\ \A p \in Peers : storage[p].knownStore = known0[p]
    /\ remoteCalls \cap {"requestNode", "submitNode"} = {}
    /\ pulled = {} /\ pushed = {}

\* both peers knew the same two UTXOs and sync() has resolved
C9_Witness ==
  /\ known0["A"] = known0["B"]
  /\ Cardinality(known0["A"]) = 2
  /\ syncPc = "resolved"

\* C10 (cycle termination): provided every call returns, the session comes to an end,
\* whatever inputs findNeededInputs asks for (a node asking for itself, two nodes
\* asking for each other)
C10_CycleTermination == <>Terminated

\* the nodes of one graph ask for each other: all three nodes have been appended and
\* an ancestor's requestNode for the tip itself is pending
C10_Witness ==
  /\ SingleGraph
  /\ \E g \in GraphIDs :
       /\ Cardinality(seen[g]) = Cardinality(NodeIds)
       /\ \E r \in reqs :
            /\ r.g = g
            /\ r.par # NodeIdOf(TipNode(g))
            /\ r.key = compute36ByteStructure(g.txid, g.outputIndex)

\* C11 (one requestNode per node): within the recursion of one top-level graph, a step
\* that calls remote.requestNode for an outpoint finds that no requestNode was called
\* for that outpoint before
C11_RequestOnce ==
  [][\A r \in reqs' \ reqs : r.key \notin requestedNodes[r.g]]_vars

\* the invocations of processIncomingNode that have called appendToGraph and await it
Appending == {"wAppendOk", "wAppendFail"}

\* C12 (one append per node): within the recursion of one top-level graph, a step in
\* which an invocation passes the seen-set guard and calls appendToGraph for a node
\* finds that node outside seenNodes and never appended before, whatever the
\* interleaving of the sibling branches
C12_AppendOnce ==
  [][\A g \in GraphIDs, n \in NodeIds :
       (frames'[g][n] # frames[g][n] /\ frames'[g][n].pc \in Appending) =>
         /\ n \notin seen[g]
         /\ n \in seen'[g]
         /\ frames[g][n].pc = "none"]_vars

\* a node already appended as an ancestor is asked for again by another node of the
\* same graph, and the answer of the peer is pending
C12_Witness ==
  \E r \in reqs :
    LET d == deconstruct36ByteStructure(r.key)
        n == NodeId(RawOf(d.txid), d.index)
    IN /\ n \in seen[r.g]
       /\ n # r.par
       /\ frames[r.g][n].spentBy # Undefined
       /\ frames[r.g][n].pc = "done"

\* C13 (parent before child): a step that calls appendToGraph(child, spentBy = p) with
\* a spentBy finds, in the recursion of the same top-level graph, a node whose 36-byte
\* outpoint is p and whose appendToGraph has completed; and only the tip of a graph is
\* appended without spentBy
C13_ParentBeforeChild ==
  [][\A g \in GraphIDs, n \in NodeIds :
       /\ (frames'[g][n] # frames[g][n] /\ frames'[g][n].pc \in Appending
             /\ frames'[g][n].spentBy # Undefined) =>
            \E m \in NodeIds :
              /\ compute36ByteStructure(computeTXID(m[1]), m[2]) = frames'[g][n].spentBy
              /\ m \in seen[g]
              /\ frames[g][m].pc \notin Appending \cup {"none"}
       /\ (frames'[g][n].pc # "none" /\ frames'[g][n].spentBy = Undefined) =>
            n = NodeIdOf(TipNode(g))]_vars

\* an ancestor at depth two has been appended: its spentBy names a node that is not
\* the tip of the graph
C13_Witness ==
  \E g \in GraphIDs, n \in NodeIds :
    /\ frames[g][n].pc = "done"
    /\ frames[g][n].spentBy # Undefined
    /\ frames[g][n].spentBy # compute36ByteStructure(g.txid, g.outputIndex)
    /\ n \in storage["A"].tempGraphStore[frames[g][n].gid]

\* C14 (validate once, at the end): a step that calls validateGraphAnchor for a
\* top-level graph is taken by the invocation of its tip (spentBy absent), is the first
\* such call for the graph, and finds no requestNode of the graph pending and every
\* other invocation of its recursion finished (its appendToGraph and findNeededInputs
\* have completed); and a graph that has been finalized is neither validated nor
\* finalized again
C14_ValidateOnce ==
  [][\A g \in GraphIDs, n \in NodeIds :
       /\ (frames'[g][n].pc = "wValidate" /\ frames[g][n].pc # "wValidate") =>
            /\ frames[g][n].spentBy = Undefined
            /\ n = NodeIdOf(TipNode(g))
            /\ validated[g] = "no"
            /\ g \notin finalized
            /\ \A r \in reqs : r.g # g
            /\ \A m \in NodeIds \ {n} : frames[g][m].pc \in {"none", "done"}
            /\ \A m \in seen[g] \ {n} : frames[g][m].pc = "done"
       /\ (frames[g][n].spentBy = Undefined /\ frames[g][n].pc = "done") =>
            frames'[g][n] = frames[g][n]]_vars

\* a tip with one ancestor: the ancestor was appended with the tip as spentBy, then
\* the graph was validated and finalized
C14_Witness ==
  \E g \in GraphIDs, m \in NodeIds :
    /\ seen[g] = {NodeIdOf(TipNode(g)), m}
    /\ m # NodeIdOf(TipNode(g))
    /\ frames[g][m].spentBy = compute36ByteStructure(g.txid, g.outputIndex)
    /\ frames[g][m].pc = "done"
    /\ validated[g] = "ok"
    /\ lastCall["A"][g] = "finalizeGraph"
    /\ g \in storage["A"].knownStore

\* C15: in unidirectional mode sync() performs the pull phase only: the initiator
\* never invokes getInitialReply and never calls remote.submitNode, and the
\* peer's Storage receives no appendToGraph, finalizeGraph or discardGraph
C15_UnidirectionalPullOnly ==
  unidirectional =>
    /\ \A c \in sinceCalls : c[2] \notin {"getInitialReply", "submitNode"}
    /\ \A c \in sinceCalls : c[1] = "B" => c[2] \notin GraphCalls
    /\ toPush = {}
    /\ sincePc # "push"

\* a unidirectional session has resolved although the initiator holds a tip the
\* peer did not list and does not know, and a listed tip was pulled
C15_Witness ==
  /\ unidirectional
  /\ sincePc = "resolved"
  /\ \E o \in Tips : <<"A", "finalizeGraph", o>> \in sinceCalls
  /\ \E o \in Known("A") : o \notin Known("B") /\ o \notin initialResponse.UTXOList

\* C16: getInitialReply(resp) is the set difference findKnownUTXOs(resp.since) minus
\* resp.UTXOList, two outpoints being equal iff both txid and outputIndex are
\* equal: every returned outpoint is locally known under that since and absent
\* from resp.UTXOList, and every such outpoint is returned
C16_ReplyIsDifference ==
  sincePc \in {"push", "resolved"} /\ ~ unidirectional =>
    \A o \in Tips :
      o \in initialReply.UTXOList <=>
        /\ o \in Known("A")
        /\ graphTime["A"][o] = 0 \/ graphTime["A"][o] > initialResponse.since
        /\ o \notin initialResponse.UTXOList

\* the reply returns one output of a transaction while the response lists
\* another output of the same transaction
C16_Witness ==
  /\ sincePc = "push"
  /\ \E x \in initialReply.UTXOList, y \in initialResponse.UTXOList :
       x.txid = y.txid /\ x.outputIndex # y.outputIndex

\* the calls of a session that request or finalize the tip o on the initiator's side
PullCalls(o) == {<<"remote", "requestNode", o>>, <<"A", "finalizeGraph", o>>}

C18_KnownTipsSkipped ==
  \A g \in known0["A"] :
    /\ TipNode(g) \notin pulled
    /\ \A n \in NodeIds : frames[g][n].pc = "none"
    /\ seen[g] = {}
    /\ requestedNodes[g] = {}
    /\ validated[g] = "no"
    /\ g \notin finalized

\* both peers know a:1 and the peer also knows a:10: a:10 has been pulled and
\* finalized, a:1 has been left alone
C18_Witness ==
  /\ Outpoint(<<"a">>, 1) \in known0["A"] \cap known0["B"]
  /\ Outpoint(<<"a">>, 10) \in known0["B"] \ known0["A"]
  /\ pulled = {TipNode(Outpoint(<<"a">>, 10))}
  /\ Outpoint(<<"a">>, 10) \in finalized
  /\ lastCall["A"][Outpoint(<<"a">>, 10)] = "finalizeGraph"

\* C19: every tip submitted to the peer in the push phase is a tip the peer does
\* not already know: remote.submitNode is never called for a tip whose outpoint
\* is in the peer's known set, whatever the two lastInteraction values and the
\* timestamps are
C19_PushOnlyUnknown ==
  [][\A o \in Tips :
       <<"remote", "submitNode", o>> \in sinceCalls' \ sinceCalls => o \notin Known("B")]_vars

\* C20: a temporary graph is discarded on every kind of failure: when a call of
\* graph g's processing has failed (findNeededInputs and remote.requestNode
\* included, not only appendToGraph and validateGraphAnchor) and every node of
\* the graph carries the graph ID g, discardGraph(g) has been called by the time
\* the session is over
C20_DiscardOnEveryFailure ==
  Terminated =>
    \A g \in GraphIDs :
      (failed[g] /\ \A n \in NodeIds : frames[g][n].gid = g) => g \in discarded

\* C21: Finalized and Discarded are terminal: once finalizeGraph(g) or
\* discardGraph(g) has been called, no later step of graph g's processing issues
\* appendToGraph, validateGraphAnchor or finalizeGraph for g, not even a sibling
\* branch that was still running when another branch of g failed
C21_TerminalStates ==
  [][\A g \in GraphIDs :
       g \in finalized \cup discarded =>
         /\ \A n \in NodeIds :
              (frames'[g][n] # frames[g][n] /\ frames'[g][n].gid = g)
                => frames'[g][n].pc \notin Appending \cup {"wValidate"}
         /\ g \in finalized' => g \in finalized]_vars

\* C22: an absent response means nothing further is needed: the step in which
\* findNeededInputs or remote.submitNode answers none raises no error, so the
\* graph it belongs to does not fail by it
C22_AbsentResponseIsNoError ==
  [][\A a \in noneAnswers' \ noneAnswers :
       /\ a[1] = "findNeededInputs" => failed'[a[2]] = failed[a[2]]
       /\ a[1] = "submitNode" => outFailed'[a[2]] = outFailed[a[2]]]_vars

\* C23: push-phase isolation: every outgoing tip is submitted, and the failure of
\* remote.submitNode or of hydrating a requested ancestor for one outgoing graph
\* abandons only that branch: sync() does not reject because of it
C23_PushIsolation ==
  /\ \A g \in pushed : NodeIdOf(TipNode(g)) \in outSeen[g]
  /\ (\E g \in pushed : outFailed[g]) =>
       ~ (syncPc = "rejected" /\ syncErr = CallError("push"))

\* discardGraph(g) was the last graph call for g and g's temporary graph is
\* still there: the call failed
DiscardFailed(g) ==
  lastCall["A"][g] = "discardGraph" /\ storage["A"].tempGraphStore[g] # {}

\* C24: discardGraph is best-effort: when discardGraph itself fails while a failed
\* graph is cleaned up, the failure is swallowed and sync() does not reject
C24_DiscardBestEffort ==
  \A g \in GraphIDs : DiscardFailed(g) => syncPc # "rejected"

\* C25: outgoing-node processing leaves the sender's own Storage unchanged: a
\* step of the push changes neither the sender's known set nor its temporary
\* graphs, issues no graph call on its Storage, and calls nothing there but
\* findKnownUTXOs and hydrateGASPNode
C25_PushLeavesSenderUnchanged ==
  [][PushVars' # PushVars =>
       /\ storage'["A"] = storage["A"]
       /\ lastCall'["A"] = lastCall["A"]
       /\ calls'["A"] \ calls["A"] \subseteq {"findKnownUTXOs", "hydrateGASPNode"}]_vars

\* a graph with a hydrated ancestor was pushed and the peer finalized it, another
\* pushed graph was rejected by the peer; the session is over
C25_Witness ==
  /\ Terminated
  /\ \E g \in pushed, h \in pushed :
       /\ Cardinality(outSeen[g]) >= 2
       /\ lastCall["B"][g] = "finalizeGraph"
       /\ g \in storage["B"].knownStore
       /\ lastCall["B"][h] = "discardGraph"
  /\ storage["A"].knownStore = known0["A"]

\* sync() has resolved or rejected
SyncSettled(pc) == pc \in {"resolved", "rejected"}

\* C26: sync() settles only after every graph it started has reached Finalized or
\* Discarded: in the step in which sync() resolves, or rejects for a reason other
\* than a version mismatch, no incoming or outgoing branch of the session is
\* still running and no graph of the session is still temporary
C26_SettlesAfterAllGraphs ==
  [][(SyncSettled(syncPc') /\ ~ SyncSettled(syncPc)
        /\ syncErr'.code # "ERR_GASP_VERSION_MISMATCH") =>
       /\ reqs' = {} /\ outTasks' = {} /\ outReqs' = {}
       /\ \A g \in GraphIDs, n \in NodeIds : frames'[g][n].pc \in {"none", "done", "failed"}
       /\ \A p \in Peers, g \in GraphIDs : storage'[p].tempGraphStore[g] = {}]_vars

\* the node identity a pending requestNode call asks for
RequestedId(r) ==
  NodeId(RawOf(deconstruct36ByteStructure(r.key).txid), deconstruct36ByteStructure(r.key).index)

\* C27: the seen-set is per top-level graph: every node in the seen-set of graph g
\* has been handed to appendToGraph in g's recursion, and while no call has
\* failed a fetched node is left out of graph g only if it is in g's own
\* seen-set; having been seen in another graph never suppresses its append
C27_SeenSetPerGraph ==
  [][/\ \A g \in GraphIDs : \A n \in seen'[g] : frames'[g][n].pc # "none"
     /\ \A r \in reqs \ reqs' :
          (allOk' /\ seen'[r.g] = seen[r.g]) => RequestedId(r) \in seen[r.g]]_vars

\* output 0 of rawb is an ancestor of both pulled tips: it was appended under
\* each of the two graph IDs, and both graphs were finalized
C27_Witness ==
  LET g == Outpoint(<<"a">>, 1)
      h == Outpoint(<<"a">>, 10)
      n == NodeId("rawb", 0)
  IN /\ n \in seen[g] /\ n \in seen[h]
     /\ frames[g][n].pc = "done" /\ frames[g][n].gid = g
     /\ frames[h][n].pc = "done" /\ frames[h][n].gid = h
     /\ g \in finalized /\ h \in finalized
     /\ allOk

C29_RequestNodeServed ==
  [][answer'.call = "requestNode" =>
       LET g == answer'.graphID
           o == answer'.node[1]
       IN /\ o \in mock.knownStore =>
               /\ answer'.ok
               /\ answer'.node[2] = [graphID |-> g, tx |-> RawOf(o.txid),
                                     outputIndex |-> o.outputIndex]
          /\ o \notin mock.knownStore => ~ answer'.ok /\ answer'.node[2] = NotFound
          /\ mock' = mock]_vars

\* requestNode has been served for an output the Storage does not know while it
\* knows another output of the same transaction and holds a temporary graph
C29_Witness ==
  /\ answer.call = "requestNode"
  /\ ~ answer.ok
  /\ \E x \in mock.knownStore : x.txid = answer.node[1].txid
  /\ \E g \in GraphIDs : mock.tempGraphStore[g] # {}

\* C30: discardGraph(g) succeeds when no temporary graph g exists and is
\* idempotent: called on an absent graph, or twice in a row, it leaves the known
\* set and all other temporary graphs unchanged (the whole Storage, in fact) and
\* raises no error
C30_DiscardGraphIdempotent ==
  [][answer'.call = "discardGraph" =>
       LET g == answer'.graphID
           absent == mock.tempGraphStore[g] = {}
           again == answer.call = "discardGraph" /\ answer.graphID = g
       IN /\ answer'.ok
          /\ mock'.knownStore = mock.knownStore
          /\ \A h \in GraphIDs \ {g} : mock'.tempGraphStore[h] = mock.tempGraphStore[h]
          /\ (absent \/ again) => mock' = mock]_vars

\* discardGraph has been served for a graph that has no temporary graph while
\* another temporary graph and a known output exist
C30_Witness ==
  /\ answer.call = "discardGraph"
  /\ answer.ok
  /\ mock.tempGraphStore[answer.graphID] = {}
  /\ \E h \in GraphIDs \ {answer.graphID} : mock.tempGraphStore[h] # {}
  /\ mock.knownStore # {}

\* C31: in the processIncomingNode of src/index.ts, a step that invokes
\* validateGraphAnchor or finalizeGraph for a tip finds appendToGraph completed
\* for every ancestor fetched in the tip's recursion (none is awaiting its
\* appendToGraph, be it to resolve or to reject), and a step that invokes
\* finalizeGraph finds no ancestor of the graph whose appendToGraph has rejected
\* and made the graph be discarded
C31_AnchorAfterAncestors ==
  [][\A g \in GraphIDs :
       LET tip == NodeIdOf(TipNode(g))
           validates == frames'[g][tip].pc = "wValidate" /\ frames[g][tip].pc = "wAll"
           finalizes == g \in finalized' /\ g \notin finalized
       IN /\ (validates \/ finalizes) =>
               \A m \in NodeIds \ {tip} : frames[g][m].pc \notin Appending
          /\ finalizes =>
               \A m \in NodeIds \ {tip} :
                 ~ (frames[g][m].pc = "failed" /\ frames[g][m].gid = g
                      /\ lastCall["A"][g] = "discardGraph")]_vars

\* C32: every appendToGraph call made during the recursion started for a tip with
\* graph ID g carries graph ID g, and the discardGraph, validateGraphAnchor and
\* finalizeGraph calls issued by that recursion name g, whatever graph ID the peer
\* put on the nodes it returned from requestNode
C32_GraphIDOfRecursion ==
  [][\A g \in GraphIDs, n \in NodeIds :
       /\ (frames'[g][n] # frames[g][n] /\ frames'[g][n].pc \in Appending) =>
            /\ frames'[g][n].gid = g
            /\ lastCall'["A"][g] = "appendToGraph"
       /\ (frames[g][n].pc = "wAppendFail" /\ frames'[g][n].pc = "failed") =>
            /\ lastCall'["A"][g] = "discardGraph"
            /\ discarded' \ discarded \subseteq {g}
       /\ (frames[g][n].pc = "wAll" /\ frames'[g][n].pc = "wValidate") =>
            lastCall'["A"][g] = "validateGraphAnchor"
       /\ (frames[g][n].pc = "wValidate" /\ frames'[g][n].pc # "wValidate") =>
            /\ lastCall'["A"][g] \in {"finalizeGraph", "discardGraph"}
            /\ (finalized' \ finalized) \cup (discarded' \ discarded) \subseteq {g}]_vars

\* C33: a step in which the engine calls discardGraph(x) is the handling of a call
\* on graph x that failed in this session: an appendToGraph of a node carrying graph
\* ID x that rejected, or a validateGraphAnchor(x) that rejected.  A graph ID for
\* which no such call fails is never discarded, whatever happens to the other
\* graphs processed concurrently
C33_DiscardOnlyFailed ==
  [][\A x \in GraphIDs :
       (x \in discarded' \ discarded \/
          (lastCall'["A"][x] = "discardGraph" /\ lastCall["A"][x] # "discardGraph")) =>
         \/ \E g \in GraphIDs, n \in NodeIds :
              /\ frames[g][n].gid = x
              /\ frames[g][n].pc = "wAppendFail"
              /\ frames'[g][n].pc = "failed"
         \/ \E g \in GraphIDs, n \in NodeIds :
              /\ frames[g][n].gid = x
              /\ frames[g][n].pc = "wValidate"
              /\ validated'[g] = "failed"]_vars

\* a graph has been discarded after its anchor was refused while another graph
\* of the session, none of whose calls failed, has been finalized and is known
C33_Witness ==
  \E x \in discarded, h \in finalized :
    /\ h # x
    /\ validated[x] = "failed"
    /\ ~ failed[h]
    /\ h \notin discarded
    /\ h \in storage["A"].knownStore

\* the graph IDs and the node identities of the tips pulled in this session
PulledIDs == {n.graphID : n \in pulled}

PulledNodes == {NodeIdOf(n) : n \in pulled}

\* the pull phase is over: every pulled graph has been finalized or discarded and
\* nothing of its recursion is pending
PullComplete ==
  /\ \A g \in PulledIDs : g \in finalized \cup discarded
  /\ reqs = {}
  /\ \A g \in GraphIDs, n \in NodeIds : frames[g][n].pc \in {"none", "done", "failed"}

C35_KnownOnlyGrows ==
  [][\A p \in Peers :
       /\ storage[p].knownStore \subseteq storage'[p].knownStore
       /\ known0[p] \subseteq storage'[p].knownStore
       /\ (\E x \in GraphIDs : lastCall'[p][x] = "discardGraph" /\ lastCall[p][x] # "discardGraph")
            => storage'[p].knownStore = storage[p].knownStore]_vars

\* a peer that knew a UTXO when sync() started has finalized a further graph, and
\* discardGraph has been called on its Storage for a graph ID it knows
C35_Witness ==
  \E p \in Peers, x \in GraphIDs :
    /\ known0[p] # {}
    /\ known0[p] # storage[p].knownStore
    /\ known0[p] \subseteq storage[p].knownStore
    /\ lastCall[p][x] = "discardGraph"
    /\ x \in storage[p].knownStore

\* C36: getSyncUTXOsForFilter returns a node for exactly those locally known UTXOs
\* whose outpoint is not one of the outpoints the filter was built from by
\* calculateBloomFilter: once the responder has answered the initial request, the
\* nodes of its response are the tips it knows and the requester does not, none
\* omitted, also when one outpoint string is a substring of another
C36_FilterExact ==
  syncPc \in {"pull", "push", "resolved"} =>
    /\ request.UTXOBloom = calculateBloomFilter(known0["A"])
    /\ pulled = {TipNode(k) : k \in known0["B"] \ known0["A"]}

\* the requestNode calls for the input b:0 in the graph of the tip a:1: the tip
\* and its input a:10 may both ask for it (a diamond)
DiamondRequests ==
  {[g |-> Outpoint(<<"a">>, 1), par |-> n, key |-> compute36ByteStructure(<<"b">>, 0)] :
     n \in {NodeId("rawa", 1), NodeId("rawa", 10)}}

\* the input asked for by request r has been appended with the node that asked as
\* spentBy: appendToGraph(child, spentBy = 36-byte outpoint of r.par) was called
Wired(r) ==
  /\ r \notin reqs
  /\ frames[r.g][RequestedId(r)].pc # "none"
  /\ frames[r.g][RequestedId(r)].spentBy = SpentBy(r.par)

\* C37 (every requested input is wired): whenever remote.requestNode is pending
\* for an input that findNeededInputs returned for an appended node p, then,
\* unless a call of the session fails, appendToGraph(child, spentBy = p's 36-byte
\* outpoint) is eventually called, also when another node of the graph has asked
\* for the same input; stated for the input b:0, asked for by the tip a:1 or by
\* its input a:10
C37_EveryInputWired ==
  \A r \in DiamondRequests : (r \in reqs) ~> (Wired(r) \/ ~ allOk)

====
